---- MODULE Spec2Model ----
(***************************************************************************)
(* librosa/core/time_frequency.py: the key-signature functions             *)
(* key_to_notes and key_to_degrees.                                        *)
(*                                                                         *)
(* Strings are sequences of one-character strings.  The characters that    *)
(* are not ASCII are written by name:                                      *)
(*   "sharp"  = U+266F (the sharp sign)     "flat"  = U+266D (the flat)    *)
(*   "dsharp" = U+1D12A (double sharp)      "dflat" = U+1D12B (double flat)*)
(*   "LF"     = the newline character                                      *)
(* Lists are 0-indexed functions, as in the source.                        *)
(***************************************************************************)
EXTENDS Integers, Sequences, FiniteSets, TLC

VARIABLES key, notes, degrees,       \* key_to_notes, key_to_degrees
          note, round_midi, n2m,     \* note_to_midi: arguments and result
          midi, opts, m2n,           \* midi_to_note: arguments and result
          conv, out,                 \* the frame/sample/time conversions
          farg, fout                 \* fft_frequencies and the weightings

keyvars == <<key, notes, degrees>>

notevars == <<note, round_midi, n2m>>

midivars == <<midi, opts, m2n>>

convvars == <<conv, out>>

freqvars == <<farg, fout>>

vars == <<keyvars, notevars, midivars, convvars, freqvars>>

----------------------------------------------------------------------------
(* Bounds of the input strings *)

MaxAccidentals == 2

MaxTrailing == 1

MaxNoteAccidentals == 2

MaxListLen == 2

MaxMidi == 25

MaxIndex == 6

MaxHop == 3

MaxNFFT == 4

MaxSr == 3

\* times are held in units of 1/TicksPerSecond seconds
TicksPerSecond == 2

----------------------------------------------------------------------------
(* Helpers: 0-indexed lists, strings *)

FromList(l) == [k \in 0..(Len(l) - 1) |-> l[k + 1]]

RECURSIVE SeqsUpTo(_, _)
SeqsUpTo(S, n) ==
    IF n = 0 THEN {<<>>}
    ELSE LET shorter == SeqsUpTo(S, n - 1)
         IN  shorter \cup {Append(s, c) : s \in shorter, c \in S}

UpperLetters == {"A", "B", "C", "D", "E", "F", "G"}

LowerLetters == {"a", "b", "c", "d", "e", "f", "g"}

upper(c) ==
    CASE c = "a" -> "A" [] c = "b" -> "B" [] c = "c" -> "C" [] c = "d" -> "D"
      [] c = "e" -> "E" [] c = "f" -> "F" [] c = "g" -> "G"
      [] c = "m" -> "M" [] c = "j" -> "J" [] c = "i" -> "I" [] c = "n" -> "N"
      [] c = "z" -> "Z"
      [] OTHER -> c

lower(c) ==
    CASE c = "A" -> "a" [] c = "B" -> "b" [] c = "C" -> "c" [] c = "D" -> "d"
      [] c = "E" -> "e" [] c = "F" -> "f" [] c = "G" -> "g"
      [] c = "M" -> "m" [] c = "J" -> "j" [] c = "I" -> "i" [] c = "N" -> "n"
      [] c = "Z" -> "z"
      [] OTHER -> c

lower_str(s) == [i \in 1..Len(s) |-> lower(s[i])]

----------------------------------------------------------------------------
(* The key grammar: re.match(r'^(?P<tonic>[A-Ga-g])(?P<accidental>[#♯b!♭]?)*)
(*                           r':(?P<scale>(maj|min)(or)?)$', key)          *)

TonicClass == UpperLetters \cup LowerLetters

AccidentalClass == {"#", "sharp", "b", "!", "flat"}

ScaleWords == {<<"m", "a", "j">>, <<"m", "i", "n">>}

\* Python's `$`: the end of the string, or just before a newline that ends it
AtEnd(s, p) == p = Len(s) + 1 \/ (p = Len(s) /\ s[p] = "LF")

\* <<a, o>>: the length matched by the accidental group and by the (or)? group
KeyMatches(s) ==
    {m \in {0, 1} \X {0, 2} :
        /\ Len(s) >= 1
        /\ s[1] \in TonicClass
        /\ m[1] = 1 => (Len(s) >= 2 /\ s[2] \in AccidentalClass)
        /\ Len(s) >= 5 + m[1]
        /\ s[2 + m[1]] = ":"
        /\ SubSeq(s, 3 + m[1], 5 + m[1]) \in ScaleWords
        /\ m[2] = 2 => (/\ Len(s) >= 7 + m[1]
                        /\ SubSeq(s, 6 + m[1], 7 + m[1]) = <<"o", "r">>)
        /\ AtEnd(s, 6 + m[1] + m[2])}

\* the optional groups are greedy: the longest accidental, then the longest (or)?
KeyMatch(s) ==
    LET ms == KeyMatches(s)
        m  == CHOOSE x \in ms : \A y \in ms :
                  x[1] > y[1] \/ (x[1] = y[1] /\ x[2] >= y[2])
    IN  IF ms = {} THEN [matched |-> FALSE, tonic |-> "", accidental |-> <<>>,
                         scale |-> <<>>]
        ELSE [matched    |-> TRUE,
              tonic      |-> s[1],
              accidental |-> SubSeq(s, 2, 1 + m[1]),
              scale      |-> SubSeq(s, 3 + m[1], 5 + m[1] + m[2])]

----------------------------------------------------------------------------
(* The tables of key_to_notes and key_to_degrees *)

pitch_map(t) ==
    CASE t = "C" -> 0 [] t = "D" -> 2 [] t = "E" -> 4 [] t = "F" -> 5
      [] t = "G" -> 7 [] t = "A" -> 9 [] t = "B" -> 11

acc_map(a) ==
    CASE a = <<"#">> -> 1 [] a = <<>> -> 0 [] a = <<"b">> -> -1
      [] a = <<"!">> -> -1 [] a = <<"sharp">> -> 1 [] a = <<"flat">> -> -1

notes_sharp ==
    FromList(<< <<"C">>, <<"C", "sharp">>, <<"D">>, <<"D", "sharp">>, <<"E">>,
                <<"F">>, <<"F", "sharp">>, <<"G">>, <<"G", "sharp">>, <<"A">>,
                <<"A", "sharp">>, <<"B">> >>)

notes_flat ==
    FromList(<< <<"C">>, <<"D", "flat">>, <<"D">>, <<"E", "flat">>, <<"E">>,
                <<"F">>, <<"G", "flat">>, <<"G">>, <<"A", "flat">>, <<"A">>,
                <<"B", "flat">>, <<"B">> >>)

sharp_corrections_swapped ==
    FromList(<< <<0, <<"B", "sharp">> >>, <<5, <<"E", "sharp">> >>,
                <<7, <<"F", "dsharp">> >>, <<2, <<"C", "dsharp">> >>,
                <<9, <<"G", "dsharp">> >>, <<4, <<"D", "dsharp">> >>,
                <<11, <<"A", "dsharp">> >> >>)

sharp_corrections ==
    FromList(<< <<5, <<"E", "sharp">> >>, <<0, <<"B", "sharp">> >>,
                <<7, <<"F", "dsharp">> >>, <<2, <<"C", "dsharp">> >>,
                <<9, <<"G", "dsharp">> >>, <<4, <<"D", "dsharp">> >>,
                <<11, <<"A", "dsharp">> >> >>)

flat_corrections_swapped ==
    FromList(<< <<4, <<"F", "flat">> >>, <<11, <<"C", "flat">> >>,
                <<9, <<"B", "dflat">> >>, <<2, <<"E", "dflat">> >>,
                <<7, <<"A", "dflat">> >>, <<0, <<"D", "dflat">> >> >>)

flat_corrections ==
    FromList(<< <<11, <<"C", "flat">> >>, <<4, <<"F", "flat">> >>,
                <<9, <<"B", "dflat">> >>, <<2, <<"E", "dflat">> >>,
                <<7, <<"A", "dflat">> >>, <<0, <<"D", "dflat">> >> >>)

degree_notes_harmonic(scale) ==
    IF scale = <<"m", "a", "j">> THEN FromList(<<0, 2, 4, 5, 7, 9, 11>>)
    ELSE FromList(<<0, 2, 3, 5, 7, 8, 11>>)

degree_notes(scale) ==
    IF scale = <<"m", "a", "j">> THEN FromList(<<0, 2, 4, 5, 7, 9, 11>>)
    ELSE FromList(<<0, 2, 3, 5, 7, 8, 10>>)

----------------------------------------------------------------------------
(* key_to_notes *)

Major(scale) == lower_str(SubSeq(scale, 1, 3)) = <<"m", "a", "j">>

TonicNumber(tonic, offset, major) ==
    IF major THEN ((pitch_map(tonic) + offset) * 7) % 12
    ELSE ((pitch_map(tonic) + offset) * 7 + 9) % 12

UseSharpsByCount(offset, tonic_number) ==
    IF tonic_number < 6 THEN "sharps" ELSE "flats"

UseSharpsTieToFlats(offset, tonic_number) ==
    IF offset < 0 THEN "flats"
    ELSE IF offset > 0 THEN "sharps"
    ELSE IF 0 < tonic_number /\ tonic_number < 6 THEN "sharps"
    ELSE "flats"

\* "unbound": no branch of the if/elif chain assigns use_sharps
UseSharps(offset, tonic_number) ==
    IF offset < 0 THEN "flats"
    ELSE IF offset > 0 THEN "sharps"
    ELSE IF 0 <= tonic_number /\ tonic_number < 6 THEN "sharps"
    ELSE IF tonic_number > 6 THEN "flats"
    ELSE "unbound"

NSharpsNoSpecialCase(tonic, tonic_number) == tonic_number

NSharps(tonic, tonic_number) ==
    IF tonic_number = 0 /\ tonic = "B" THEN 12 ELSE tonic_number

NFlats(tonic_number) == (12 - tonic_number) % 12

NCorrectionsOffByOne(n) == IF n - 6 > 0 THEN n - 6 ELSE 0

NCorrectionsOneTooMany(n) == IF n - 6 + 2 > 0 THEN n - 6 + 2 ELSE 0

\* range(0, n - 6 + 1) has this many elements
NCorrections(n) == IF n - 6 + 1 > 0 THEN n - 6 + 1 ELSE 0

\* for n in range(from, stop): index, name = corrections[n]; table[index] = name
RECURSIVE ApplyCorrections(_, _, _, _)
ApplyCorrections(table, corrections, n, stop) ==
    IF n >= stop THEN table
    ELSE ApplyCorrections(
             [table EXCEPT ![corrections[n][1]] = corrections[n][2]],
             corrections, n + 1, stop)

TranslateSingle(c) ==
    CASE c = "sharp"  -> <<"#">>
      [] c = "dsharp" -> <<"#">>
      [] c = "flat"   -> <<"b">>
      [] c = "dflat"  -> <<"b">>
      [] OTHER        -> <<c>>

Translate(c) ==
    CASE c = "sharp"  -> <<"#">>
      [] c = "dsharp" -> <<"#", "#">>
      [] c = "flat"   -> <<"b">>
      [] c = "dflat"  -> <<"b", "b">>
      [] OTHER        -> <<c>>

RECURSIVE TranslateStr(_)
TranslateStr(s) ==
    IF s = <<>> THEN <<>> ELSE Translate(Head(s)) \o TranslateStr(Tail(s))

Raise(e) == [exc |-> e, value |-> <<>>]

Return(v) == [exc |-> "none", value |-> v]

NotCalled == [exc |-> "not called", value |-> <<>>]

key_to_notes(k, unicode) ==
    LET match        == KeyMatch(k)
        tonic        == upper(match.tonic)
        offset       == acc_map(match.accidental)
        major        == Major(match.scale)
        tonic_number == TonicNumber(tonic, offset, major)
        use_sharps   == UseSharps(offset, tonic_number)
        n_sharps     == NSharps(tonic, tonic_number)
        n_flats      == NFlats(tonic_number)
        corrections  == IF use_sharps = "sharps" THEN sharp_corrections
                        ELSE flat_corrections
        base         == IF use_sharps = "sharps" THEN notes_sharp ELSE notes_flat
        stop         == IF use_sharps = "sharps" THEN NCorrections(n_sharps)
                        ELSE NCorrections(n_flats)
        table        == ApplyCorrections(base, corrections, 0, stop)
    IN  IF ~match.matched THEN Raise("ParameterError")
        ELSE IF use_sharps = "unbound" THEN Raise("UnboundLocalError")
        ELSE IF stop > Cardinality(DOMAIN corrections) THEN Raise("IndexError")
        ELSE IF unicode THEN Return(table)
        ELSE Return([i \in DOMAIN table |-> TranslateStr(table[i])])

----------------------------------------------------------------------------
(* key_to_degrees *)

key_to_degrees(k) ==
    LET match  == KeyMatch(k)
        tonic  == upper(match.tonic)
        offset == acc_map(match.accidental)
        scale  == lower_str(SubSeq(match.scale, 1, 3))
        pat    == degree_notes(scale)
    IN  IF ~match.matched THEN Raise("ParameterError")
        ELSE Return([i \in DOMAIN pat |-> (pat[i] + pitch_map(tonic) + offset) % 12])

----------------------------------------------------------------------------
(* Numbers and their decimal spellings.  MIDI numbers, which may be         *)
(* fractional, are held in hundredths of a semitone: 6050 is 60.5.          *)

Digits == {"0", "1", "2", "3", "4", "5", "6", "7", "8", "9"}

Signs == {"+", "-"}

DigitValue(c) ==
    CASE c = "0" -> 0 [] c = "1" -> 1 [] c = "2" -> 2 [] c = "3" -> 3
      [] c = "4" -> 4 [] c = "5" -> 5 [] c = "6" -> 6 [] c = "7" -> 7
      [] c = "8" -> 8 [] c = "9" -> 9

DigitChar(d) ==
    CASE d = 0 -> "0" [] d = 1 -> "1" [] d = 2 -> "2" [] d = 3 -> "3"
      [] d = 4 -> "4" [] d = 5 -> "5" [] d = 6 -> "6" [] d = 7 -> "7"
      [] d = 8 -> "8" [] d = 9 -> "9"

Abs(n) == IF n < 0 THEN -n ELSE n

\* Python's int(x) of a float, numpy's astype(int): truncation toward zero
TruncDiv(a, b) == IF a >= 0 THEN a \div b ELSE -((-a) \div b)

\* Python's and numpy's // : the floor of the quotient
FloorDiv(a, b) == a \div b

RECURSIVE DigitsToNat(_)
DigitsToNat(s) ==
    IF s = <<>> THEN 0
    ELSE 10 * DigitsToNat(SubSeq(s, 1, Len(s) - 1)) + DigitValue(s[Len(s)])

\* int('4'), int('+4'), int('-1')
int(s) ==
    IF s[1] = "-" THEN -DigitsToNat(Tail(s))
    ELSE IF s[1] = "+" THEN DigitsToNat(Tail(s))
    ELSE DigitsToNat(s)

RECURSIVE Decimal(_)
Decimal(n) ==
    IF n < 10 THEN <<DigitChar(n)>>
    ELSE Decimal(n \div 10) \o <<DigitChar(n % 10)>>

RECURSIVE ZeroFill(_, _)
ZeroFill(digits, width) ==
    IF Len(digits) >= width THEN digits ELSE ZeroFill(<<"0">> \o digits, width)

\* '{:0d}'.format(n): the decimal, with '-' when negative
FormatOctave(n) == IF n < 0 THEN <<"-">> \o Decimal(-n) ELSE Decimal(n)

\* '{:+02d}'.format(n): always a sign, zero-filled to a width of 2 in all,
\* the sign counted in the width
FormatCents(n) ==
    <<IF n < 0 THEN "-" ELSE "+">> \o ZeroFill(Decimal(Abs(n)), 2 - 1)

RoundTruncate(h) == TruncDiv(h, 100)

RoundHalfUp(h) == (h + 50) \div 100

\* np.round of h hundredths: the nearest integer, a tie going to the even one
RoundHalfEven(h) ==
    LET q == h \div 100
        r == h % 100
    IN  IF r < 50 THEN q
        ELSE IF r > 50 THEN q + 1
        ELSE IF q % 2 = 0 THEN q ELSE q + 1

----------------------------------------------------------------------------
\* note_to_midi:
\*   re.match(r'^(?P<note>[A-Ga-g])(?P<accidental>[#♯𝄪b!♭𝄫♮]*)'
\*            r'(?P<octave>[+-]?\d+)?(?P<cents>[+-]\d+)?$', note)
\* "natural" = U+266E

NoteAccidentalClass ==
    {"#", "sharp", "dsharp", "b", "!", "flat", "dflat", "natural"}

note_acc_map(c) ==
    CASE c = "#" -> 1 [] c = "b" -> -1 [] c = "!" -> -1 [] c = "sharp" -> 1
      [] c = "dsharp" -> 2 [] c = "flat" -> -1 [] c = "dflat" -> -2
      [] c = "natural" -> 0

IsDigits(s) == Len(s) >= 1 /\ \A i \in 1..Len(s) : s[i] \in Digits

\* [+-]?\d+
IsOctave(s) ==
    /\ Len(s) >= 1
    /\ IF s[1] \in Signs THEN IsDigits(Tail(s)) ELSE IsDigits(s)

\* [+-]\d+
IsCents(s) == Len(s) >= 2 /\ s[1] \in Signs /\ IsDigits(Tail(s))

\* <<a, o, c>>: the lengths matched by the accidental, octave and cents groups
NoteMatches(s) ==
    {m \in (0..Len(s)) \X (0..Len(s)) \X (0..Len(s)) :
        /\ Len(s) >= 1
        /\ s[1] \in TonicClass
        /\ 1 + m[1] + m[2] + m[3] <= Len(s)
        /\ AtEnd(s, 2 + m[1] + m[2] + m[3])
        /\ \A i \in 2..(1 + m[1]) : s[i] \in NoteAccidentalClass
        /\ m[2] > 0 => IsOctave(SubSeq(s, 2 + m[1], 1 + m[1] + m[2]))
        /\ m[3] > 0 => IsCents(SubSeq(s, 2 + m[1] + m[2], 1 + m[1] + m[2] + m[3]))}

\* every group is greedy, the leftmost first; an optional group that matched
\* nothing is None (here: the empty string)
NoteMatch(s) ==
    LET ms == NoteMatches(s)
        m  == CHOOSE x \in ms : \A y \in ms :
                  \/ x[1] > y[1]
                  \/ (x[1] = y[1] /\ x[2] > y[2])
                  \/ (x[1] = y[1] /\ x[2] = y[2] /\ x[3] >= y[3])
    IN  IF ms = {} THEN [matched |-> FALSE, note |-> "", accidental |-> <<>>,
                         octave |-> <<>>, cents |-> <<>>]
        ELSE [matched    |-> TRUE,
              note       |-> s[1],
              accidental |-> SubSeq(s, 2, 1 + m[1]),
              octave     |-> SubSeq(s, 2 + m[1], 1 + m[1] + m[2]),
              cents      |-> SubSeq(s, 2 + m[1] + m[2], 1 + m[1] + m[2] + m[3])]

SumAccidentalsFirstOnly(a) ==
    IF a = <<>> THEN 0 ELSE note_acc_map(a[1])

\* np.sum([acc_map[o] for o in accidental])
RECURSIVE SumAccidentals(_)
SumAccidentals(a) ==
    IF a = <<>> THEN 0 ELSE note_acc_map(Head(a)) + SumAccidentals(Tail(a))

NoteValueNoOctaveShift(octave, pitch, offset, cents) ==
    1200 * octave + 100 * pitch + 100 * offset + cents

\* 12 * (octave + 1) + pitch_map[pitch] + offset + cents, cents being
\* int(cents) * 1e-2: in hundredths
NoteValue(octave, pitch, offset, cents) ==
    1200 * (octave + 1) + 100 * pitch + 100 * offset + cents

\* the lines of note_to_midi after the re.match, for one string
NoteOfMatch(match, round) ==
    LET octave == IF match.octave = <<>> THEN 0 ELSE int(match.octave)
        cents  == IF match.cents = <<>> THEN 0 ELSE int(match.cents)
    IN  IF ~match.matched THEN Raise("ParameterError")
        ELSE IF round
        THEN Return(100 * RoundHalfEven(
                 NoteValue(octave, pitch_map(upper(match.note)),
                           SumAccidentals(match.accidental), cents)))
        ELSE Return(NoteValue(octave, pitch_map(upper(match.note)),
                              SumAccidentals(match.accidental), cents))

\* note_to_midi of one string
note_to_midi_str(s, round) == NoteOfMatch(NoteMatch(s), round)

\* np.array([note_to_midi(n, round_midi=round_midi) for n in note]): the first
\* element that raises ends the comprehension
RECURSIVE NoteList(_, _, _)
NoteList(items, round, done) ==
    IF items = <<>> THEN Return(done)
    ELSE LET r == note_to_midi_str(Head(items), round)
         IN  IF r.exc # "none" THEN r
             ELSE NoteList(Tail(items), round, Append(done, r.value))

\* note: [kind |-> "str", val |-> a string] or [kind |-> "list", val |-> strings]
note_to_midi(n, round) ==
    IF n.kind # "str" THEN NoteList(n.val, round, <<>>)
    ELSE note_to_midi_str(n.val, round)

----------------------------------------------------------------------------
(* midi_to_note *)

NoteIndexAbs(note_num) == Abs(note_num) % 12

\* note_num % 12
NoteIndex(note_num) == note_num % 12

\* int(note_num / 12) - 1: the quotient is truncated toward zero
OctaveNumber(note_num) == TruncDiv(note_num, 12) - 1

\* the lines of midi_to_note after note_map = key_to_notes(key, unicode),
\* for one number x (in hundredths)
SpellNote(note_map, x, octave, cents) ==
    LET note_num   == RoundHalfEven(x)
        note_cents == x - 100 * note_num
    IN  IF note_map.exc # "none" THEN note_map
        ELSE Return(note_map.value[NoteIndex(note_num)]
                    \o (IF octave THEN FormatOctave(OctaveNumber(note_num))
                        ELSE <<>>)
                    \o (IF cents THEN FormatCents(note_cents) ELSE <<>>))

\* midi_to_note of one number, after the cents/octave check
midi_to_note_scalar(x, octave, cents, k, unicode) ==
    SpellNote(key_to_notes(k, unicode), x, octave, cents)

\* [midi_to_note(x, ...) for x in midi]
RECURSIVE MidiList(_, _, _, _, _, _)
MidiList(items, octave, cents, k, unicode, done) ==
    IF items = <<>> THEN Return(done)
    ELSE LET r == IF cents /\ ~octave THEN Raise("ParameterError")
                  ELSE midi_to_note_scalar(Head(items), octave, cents, k, unicode)
         IN  IF r.exc # "none" THEN r
             ELSE MidiList(Tail(items), octave, cents, k, unicode,
                           Append(done, r.value))

midi_to_note_check_last(m, octave, cents, k, unicode) ==
    IF m.kind # "scalar" THEN MidiList(m.val, octave, cents, k, unicode, <<>>)
    ELSE IF cents /\ ~octave THEN Raise("ParameterError")
    ELSE midi_to_note_scalar(m.val, octave, cents, k, unicode)

\* midi: [kind |-> "scalar", val |-> hundredths] or [kind |-> "list", val |-> ...]
midi_to_note(m, octave, cents, k, unicode) ==
    IF cents /\ ~octave THEN Raise("ParameterError")
    ELSE IF m.kind # "scalar" THEN MidiList(m.val, octave, cents, k, unicode, <<>>)
    ELSE midi_to_note_scalar(m.val, octave, cents, k, unicode)

----------------------------------------------------------------------------
(* frames_to_samples, samples_to_frames, time_to_samples, time_to_frames,   *)
(* on one index; an array is converted element by element.                  *)

\* n_fft is None
None == [given |-> FALSE, val |-> 0]

Some(n) == [given |-> TRUE, val |-> n]

\* offset = 0; if n_fft is not None: offset = int(n_fft // 2)
FFTOffset(n_fft) == IF n_fft.given THEN FloorDiv(n_fft.val, 2) ELSE 0

frames_to_samples_no_offset(frames, hop_length, n_fft) ==
    frames * hop_length

frames_to_samples(frames, hop_length, n_fft) ==
    frames * hop_length + FFTOffset(n_fft)

samples_to_frames_one_based(samples, hop_length, n_fft) ==
    FloorDiv(samples - FFTOffset(n_fft), hop_length) + 1

samples_to_frames_truncating(samples, hop_length, n_fft) ==
    TruncDiv(samples - FFTOffset(n_fft), hop_length)

\* np.floor((samples - offset) // hop_length).astype(int)
samples_to_frames(samples, hop_length, n_fft) ==
    FloorDiv(samples - FFTOffset(n_fft), hop_length)

\* (np.asanyarray(times) * sr).astype(int), times in ticks
time_to_samples(times, sr) == TruncDiv(times * sr, TicksPerSecond)

time_to_frames(times, sr, hop_length, n_fft) ==
    samples_to_frames(time_to_samples(times, sr), hop_length, n_fft)

----------------------------------------------------------------------------
(* fft_frequencies.  Frequencies are exact fractions num/den. *)

Frac(n, d) == [num |-> n, den |-> d]

\* np.linspace(0, stop, num, endpoint=True): entry k is k * stop / (num - 1),
\* the single entry of num = 1 is the start
linspace(stop, num) ==
    [k \in 0..(num - 1) |->
        IF num = 1 THEN Frac(0, 1)
        ELSE Frac(k * stop.num, stop.den * (num - 1))]

\* np.linspace(0, float(sr) / 2, int(1 + n_fft//2), endpoint=True)
fft_frequencies(sr, n_fft) == linspace(Frac(sr, 2), 1 + FloorDiv(n_fft, 2))

----------------------------------------------------------------------------
(* The weighting curves.  A frequency argument is a scalar or an array; a   *)
(* weight of the curves A to D is held as the curve and the frequency it is *)
(* the weight of (the decibel arithmetic, with its clip at min_db, is       *)
(* elementwise and keeps the shape); the weight of Z is zero.               *)

Scalar(x) == [kind |-> "scalar", val |-> x]

Array(a) == [kind |-> "array", val |-> a]

Weight(curve, f) == [curve |-> curve, f |-> f]

ZeroWeight == [curve |-> "zero", f |-> 0]

\* A_weighting, B_weighting, C_weighting, D_weighting
CurveWeighting(curve, frequencies) ==
    IF frequencies.kind = "scalar"
    THEN Return(Scalar(Weight(curve, frequencies.val)))
    ELSE Return(Array([i \in 1..Len(frequencies.val) |->
                          Weight(curve, frequencies.val[i])]))

\* weights = np.zeros(len(frequencies)): a scalar has no len()
Z_weighting(frequencies) ==
    IF frequencies.kind = "scalar" THEN Raise("TypeError")
    ELSE Return(Array([i \in 1..Len(frequencies.val) |-> ZeroWeight]))

\* a kind is None or a string
KNone == [isstr |-> FALSE, val |-> <<>>]

KStr(s) == [isstr |-> TRUE, val |-> s]

\* the keys of the table: 'A', 'B', 'C', 'D', 'Z' and None
WEIGHTING_FUNCTIONS ==
    {KStr(<<c>>) : c \in {"A", "B", "C", "D", "Z"}} \cup {KNone}

\* WEIGHTING_FUNCTIONS[kind](frequencies)
CallWeighting(kind, frequencies) ==
    IF kind \notin WEIGHTING_FUNCTIONS THEN Raise("KeyError")
    ELSE IF kind = KNone \/ kind = KStr(<<"Z">>) THEN Z_weighting(frequencies)
    ELSE CurveWeighting(kind.val[1], frequencies)

upper_str(s) == [i \in 1..Len(s) |-> upper(s[i])]

frequency_weighting_case_sensitive(frequencies, kind) ==
    CallWeighting(kind, frequencies)

\* if isinstance(kind, str): kind = kind.upper()
frequency_weighting(frequencies, kind) ==
    CallWeighting(IF kind.isstr THEN KStr(upper_str(kind.val)) ELSE kind,
                  frequencies)

\* for k in kinds: a string gives its characters, each a string of length 1
StrKinds(s) == [i \in 1..Len(s) |-> KStr(<<s[i]>>)]

\* [frequency_weighting(frequencies, k) for k in kinds], then np.stack, which
\* needs at least one row
RECURSIVE StackWeightings(_, _, _)
StackWeightings(frequencies, items, rows) ==
    IF items = <<>>
    THEN IF rows = <<>> THEN Raise("ValueError")
         ELSE Return([kind |-> "stack", val |-> rows])
    ELSE IF frequency_weighting(frequencies, Head(items)).exc # "none"
    THEN Raise(frequency_weighting(frequencies, Head(items)).exc)
    ELSE StackWeightings(frequencies, Tail(items),
             Append(rows, frequency_weighting(frequencies, Head(items)).value))

multi_frequency_weighting(frequencies, kinds) ==
    StackWeightings(frequencies, kinds, <<>>)

----------------------------------------------------------------------------
(* The key strings the functions are called with *)

TonicParts == {<<c>> : c \in TonicClass \cup {"X"}}

AccidentalParts == SeqsUpTo(AccidentalClass, MaxAccidentals)

SeparatorParts == {<<":">>, <<>>}

ScaleParts == ScaleWords \cup {<<"M", "A", "J">>}

OrParts == {<<>>, <<"o", "r">>}

TrailingParts == SeqsUpTo({"LF"}, MaxTrailing)

Keys ==
    {t \o a \o s \o m \o o \o e :
        t \in TonicParts, a \in AccidentalParts, s \in SeparatorParts,
        m \in ScaleParts, o \in OrParts, e \in TrailingParts}

----------------------------------------------------------------------------
(* The arguments the other functions are called with *)

NoteLetterParts == {<<c>> : c \in {"C", "A", "b", "g", "H"}}

NoteAccidentalParts ==
    SeqsUpTo({"#", "b", "dflat", "natural"}, MaxNoteAccidentals)

OctaveParts ==
    {<<>>, <<"4">>, <<"-", "1">>, <<"+", "2">>, <<"1", "0">>, <<"-", "3">>}

CentsParts == {<<>>, <<"+", "5", "0">>, <<"-", "5", "0">>, <<"-", "3", "0">>, <<"+">>}

NoteStrings ==
    {l \o a \o o \o c \o e :
        l \in NoteLetterParts, a \in NoteAccidentalParts, o \in OctaveParts,
        c \in CentsParts, e \in TrailingParts}

NoteLists ==
    SeqsUpTo({<<"C">>, <<"A", "4">>, <<"H", "4">>}, MaxListLen)

NoteInputs ==
    {[kind |-> "str", val |-> s] : s \in NoteStrings}
        \cup {[kind |-> "list", val |-> l] : l \in NoteLists}

MidiScalars ==
    {100 * n + d : n \in (-MaxMidi)..MaxMidi, d \in {-50, -30, -7, 0, 3, 50}}
        \cup {3700, 6900, 6930, 10470}

MidiLists == SeqsUpTo({6000, -200, 6903}, MaxListLen)

MidiInputs ==
    {[kind |-> "scalar", val |-> x] : x \in MidiScalars}
        \cup {[kind |-> "list", val |-> l] : l \in MidiLists}

DefaultKey == <<"C", ":", "m", "a", "j">>

MidiKeys ==
    {DefaultKey, <<"F", ":", "m", "i", "n">>, <<"B", "#", ":", "m", "a", "j">>,
     <<"F", "b", ":", "m", "i", "n">>, <<"X", ":", "m", "a", "j">>}

\* midi_to_note(midi, octave=True, cents=False, key='C:maj', unicode=True)
DefaultOpts ==
    [octave |-> TRUE, cents |-> FALSE, key |-> DefaultKey, unicode |-> TRUE]

OptsSet == [octave : BOOLEAN, cents : BOOLEAN, key : MidiKeys, unicode : BOOLEAN]

ConvNames ==
    {"frames_to_samples", "samples_to_frames", "samples_to_frames_of_samples",
     "frames_to_samples_of_frames", "time_to_frames"}

ConvArgs ==
    [x          : (-MaxIndex)..MaxIndex,
     hop_length : 1..MaxHop,
     n_fft      : {None} \cup {Some(n) : n \in 1..MaxNFFT},
     sr         : 1..MaxSr]

FreqNames ==
    {"fft_frequencies", "Z_weighting", "frequency_weighting",
     "multi_frequency_weighting"}

FrequencyInputs ==
    {Scalar(440)} \cup {Array(a) : a \in SeqsUpTo({0, 440}, MaxListLen)}

KindInputs ==
    {KNone} \cup {KStr(<<c>>) : c \in {"A", "a", "B", "b", "C", "c", "D", "d",
                                      "Z", "z", "E"}}
            \cup {KStr(<<>>), KStr(<<"A", "B">>)}

\* multi_frequency_weighting(frequencies, kinds='ZAC')
DefaultKinds == StrKinds(<<"Z", "A", "C">>)

\* 'ZAC', 'aE', '' and the list [None, 'b']
KindsInputs ==
    {DefaultKinds, StrKinds(<<"a", "E">>), StrKinds(<<>>), <<KNone, KStr(<<"b">>)>>}

FreqArgs ==
    [sr          : 1..MaxSr,
     n_fft       : 1..MaxNFFT,
     frequencies : FrequencyInputs,
     kind        : KindInputs,
     kinds       : KindsInputs]

----------------------------------------------------------------------------
(* The state machines.  Each one is a caller that holds the arguments of    *)
(* one family of functions and calls them; the variables of the other       *)
(* families stay as they are.                                               *)

KeyIdle ==
    /\ key = <<>>
    /\ notes = [u \in BOOLEAN |-> NotCalled]
    /\ degrees = NotCalled

NoteIdle ==
    /\ note = [kind |-> "none", val |-> <<>>]
    /\ round_midi = TRUE
    /\ n2m = NotCalled

MidiIdle ==
    /\ midi = [kind |-> "none", val |-> 0]
    /\ opts = DefaultOpts
    /\ m2n = NotCalled

ConvIdle ==
    /\ conv = [x |-> 0, hop_length |-> 1, n_fft |-> None, sr |-> 1]
    /\ out = [f \in ConvNames |-> NotCalled]

FreqIdle ==
    /\ farg = [sr |-> 1, n_fft |-> 1, frequencies |-> Array(<<>>),
               kind |-> KNone, kinds |-> DefaultKinds]
    /\ fout = [f \in FreqNames |-> NotCalled]

(* key_to_notes, key_to_degrees *)

Init ==
    /\ key \in Keys
    /\ notes = [u \in BOOLEAN |-> NotCalled]
    /\ degrees = NotCalled
    /\ NoteIdle /\ MidiIdle /\ ConvIdle /\ FreqIdle

CallKeyToNotes(unicode) ==
    /\ notes[unicode] = NotCalled
    /\ notes' = [notes EXCEPT ![unicode] = key_to_notes(key, unicode)]
    /\ UNCHANGED <<key, degrees, notevars, midivars, convvars, freqvars>>

CallKeyToDegrees ==
    /\ degrees = NotCalled
    /\ degrees' = key_to_degrees(key)
    /\ UNCHANGED <<key, notes, notevars, midivars, convvars, freqvars>>

Next ==
    \/ \E unicode \in BOOLEAN : CallKeyToNotes(unicode)
    \/ CallKeyToDegrees

Spec == Init /\ [][Next]_vars

(* note_to_midi, and midi_to_note of its result *)

InitNote ==
    /\ note \in NoteInputs
    /\ round_midi \in BOOLEAN
    /\ n2m = NotCalled
    /\ KeyIdle /\ MidiIdle /\ ConvIdle /\ FreqIdle

CallNoteToMidi ==
    /\ n2m = NotCalled
    /\ n2m' = note_to_midi(note, round_midi)
    /\ UNCHANGED <<note, round_midi, keyvars, midivars, convvars, freqvars>>

\* midi_to_note(note_to_midi(note)), every other argument at its default
CallMidiToNoteOfResult ==
    /\ n2m.exc = "none"
    /\ m2n = NotCalled
    /\ midi' = [kind |-> IF note.kind = "str" THEN "scalar" ELSE "list",
                val  |-> n2m.value]
    /\ m2n' = midi_to_note(midi', opts.octave, opts.cents, opts.key, opts.unicode)
    /\ UNCHANGED <<opts, notevars, keyvars, convvars, freqvars>>

NextNote == CallNoteToMidi \/ CallMidiToNoteOfResult

SpecNote == InitNote /\ [][NextNote]_vars

(* midi_to_note *)

InitMidi ==
    /\ midi \in MidiInputs
    /\ opts \in OptsSet
    /\ m2n = NotCalled
    /\ KeyIdle /\ NoteIdle /\ ConvIdle /\ FreqIdle

CallMidiToNote ==
    /\ m2n = NotCalled
    /\ m2n' = midi_to_note(midi, opts.octave, opts.cents, opts.key, opts.unicode)
    /\ UNCHANGED <<midi, opts, keyvars, notevars, convvars, freqvars>>

\* note_to_midi(midi_to_note(midi, ...)), round_midi at its default
CallNoteToMidiOfName ==
    /\ m2n.exc = "none"
    /\ n2m.exc = "not called"
    /\ note' = [kind |-> IF midi.kind = "scalar" THEN "str" ELSE "list",
                val  |-> m2n.value]
    /\ round_midi' = TRUE
    /\ n2m' = note_to_midi(note', round_midi')
    /\ UNCHANGED <<midivars, keyvars, convvars, freqvars>>

NextMidi == CallMidiToNote \/ CallNoteToMidiOfName

SpecMidi == InitMidi /\ [][NextMidi]_vars

(* the conversions between frames, samples and time *)

InitConv ==
    /\ conv \in ConvArgs
    /\ out = [f \in ConvNames |-> NotCalled]
    /\ KeyIdle /\ NoteIdle /\ MidiIdle /\ FreqIdle

Store(f, v) ==
    /\ out[f] = NotCalled
    /\ out' = [out EXCEPT ![f] = Return(v)]
    /\ UNCHANGED <<conv, keyvars, notevars, midivars, freqvars>>

\* conv.x is a frame index
CallFramesToSamples ==
    Store("frames_to_samples",
          frames_to_samples(conv.x, conv.hop_length, conv.n_fft))

\* conv.x is a sample index
CallSamplesToFrames ==
    Store("samples_to_frames",
          samples_to_frames(conv.x, conv.hop_length, conv.n_fft))

\* samples_to_frames(frames_to_samples(x, hop_length, n_fft), hop_length, n_fft)
CallSamplesToFramesOfSamples ==
    /\ out["frames_to_samples"].exc = "none"
    /\ Store("samples_to_frames_of_samples",
             samples_to_frames(out["frames_to_samples"].value,
                               conv.hop_length, conv.n_fft))

\* frames_to_samples(samples_to_frames(x, hop_length, n_fft), hop_length, n_fft)
CallFramesToSamplesOfFrames ==
    /\ out["samples_to_frames"].exc = "none"
    /\ Store("frames_to_samples_of_frames",
             frames_to_samples(out["samples_to_frames"].value,
                               conv.hop_length, conv.n_fft))

\* conv.x is a time, in ticks
CallTimeToFrames ==
    Store("time_to_frames",
          time_to_frames(conv.x, conv.sr, conv.hop_length, conv.n_fft))

NextConv ==
    \/ CallFramesToSamples
    \/ CallSamplesToFrames
    \/ CallSamplesToFramesOfSamples
    \/ CallFramesToSamplesOfFrames
    \/ CallTimeToFrames

SpecConv == InitConv /\ [][NextConv]_vars

(* key_to_notes, and note_to_midi of the names of its table *)

InitSpell ==
    /\ key \in Keys
    /\ notes = [u \in BOOLEAN |-> NotCalled]
    /\ degrees = NotCalled
    /\ NoteIdle /\ MidiIdle /\ ConvIdle /\ FreqIdle

\* note_to_midi(key_to_notes(key, unicode)[k]), round_midi at its default
CallNoteToMidiOfEntry(unicode, k) ==
    /\ notes[unicode].exc = "none"
    /\ n2m.exc = "not called"
    /\ note' = [kind |-> "str", val |-> notes[unicode].value[k]]
    /\ round_midi' = TRUE
    /\ n2m' = note_to_midi(note', round_midi')
    /\ UNCHANGED <<keyvars, midivars, convvars, freqvars>>

NextSpell ==
    \/ \E unicode \in BOOLEAN : CallKeyToNotes(unicode)
    \/ \E unicode \in BOOLEAN, k \in 0..11 : CallNoteToMidiOfEntry(unicode, k)

SpecSpell == InitSpell /\ [][NextSpell]_vars

(* fft_frequencies and the weightings *)

InitFreq ==
    /\ farg \in FreqArgs
    /\ fout = [f \in FreqNames |-> NotCalled]
    /\ KeyIdle /\ NoteIdle /\ MidiIdle /\ ConvIdle

StoreFreq(f, r) ==
    /\ fout[f].exc = "not called"
    /\ fout' = [fout EXCEPT ![f] = r]
    /\ UNCHANGED <<farg, keyvars, notevars, midivars, convvars>>

CallFftFrequencies ==
    StoreFreq("fft_frequencies", Return(fft_frequencies(farg.sr, farg.n_fft)))

CallZWeighting ==
    StoreFreq("Z_weighting", Z_weighting(farg.frequencies))

CallFrequencyWeighting ==
    StoreFreq("frequency_weighting",
              frequency_weighting(farg.frequencies, farg.kind))

CallMultiFrequencyWeighting ==
    StoreFreq("multi_frequency_weighting",
              multi_frequency_weighting(farg.frequencies, farg.kinds))

NextFreq ==
    \/ CallFftFrequencies
    \/ CallZWeighting
    \/ CallFrequencyWeighting
    \/ CallMultiFrequencyWeighting

SpecFreq == InitFreq /\ [][NextFreq]_vars

----------------------------------------------------------------------------
(* What the properties below speak of *)

Called(r) == r.exc # "not called"

Returned(r) == r.exc = "none"

\* the parse of the key in hand (meaningful once a call has returned a value)
Tonic == upper(KeyMatch(key).tonic)

Offset == acc_map(KeyMatch(key).accidental)

IsMajor == Major(KeyMatch(key).scale)

TonicNo == TonicNumber(Tonic, Offset, IsMajor)

SingleSharpTable ==
    FromList(<< <<"C">>, <<"C", "sharp">>, <<"D">>, <<"D", "sharp">>, <<"E">>,
                <<"F">>, <<"F", "sharp">>, <<"G">>, <<"G", "sharp">>, <<"A">>,
                <<"A", "sharp">>, <<"B">> >>)

SingleFlatTable ==
    FromList(<< <<"C">>, <<"D", "flat">>, <<"D">>, <<"E", "flat">>, <<"E">>,
                <<"F">>, <<"G", "flat">>, <<"G">>, <<"A", "flat">>, <<"A">>,
                <<"B", "flat">>, <<"B">> >>)

\* the ordered correction lists as the specification states them
SharpCorrectionList ==
    << <<5, <<"E", "sharp">> >>, <<0, <<"B", "sharp">> >>,
       <<7, <<"F", "dsharp">> >>, <<2, <<"C", "dsharp">> >>,
       <<9, <<"G", "dsharp">> >>, <<4, <<"D", "dsharp">> >>,
       <<11, <<"A", "dsharp">> >> >>

FlatCorrectionList ==
    << <<11, <<"C", "flat">> >>, <<4, <<"F", "flat">> >>,
       <<9, <<"B", "dflat">> >>, <<2, <<"E", "dflat">> >>,
       <<7, <<"A", "dflat">> >>, <<0, <<"D", "dflat">> >> >>

Max0(n) == IF n > 0 THEN n ELSE 0

\* base with the first c entries of list substituted, every other entry unchanged
Substituted(base, list, c) ==
    [k \in 0..11 |->
        IF \E j \in 1..c : list[j][1] = k
        THEN list[CHOOSE j \in 1..c : list[j][1] = k][2]
        ELSE base[k]]

CMajKey == <<"C", ":", "m", "a", "j">>

AMinKey == <<"A", ":", "m", "i", "n">>

ASharpMinKey == <<"A", "#", ":", "m", "i", "n">>

FFlatMinKey == <<"F", "b", ":", "m", "i", "n">>

BSharpMajKey == <<"B", "#", ":", "m", "a", "j">>

FSharpMajKey == <<"F", "#", ":", "m", "a", "j">>

LowerCMajKey == <<"c", ":", "m", "a", "j">>

CMajNewlineKey == <<"C", ":", "m", "a", "j", "LF">>

----------------------------------------------------------------------------
\* C1: for every key the functions accept, the seven scale degrees of
\* key_to_degrees(key), spelled through the table key_to_notes(key), use each
\* of the seven letters A-G exactly once (seven names, seven letters).
C1_DiatonicLettersOnce ==
    (Returned(notes[TRUE]) /\ Returned(degrees)) =>
        /\ DOMAIN degrees.value = 0..6
        /\ {notes[TRUE].value[degrees.value[i]][1] : i \in 0..6} = UpperLetters

\* a key of six sharps, where the first correction is what keeps the letters apart
C1_Witness ==
    /\ key = FSharpMajKey
    /\ Returned(notes[TRUE]) /\ Returned(degrees)
    /\ notes[TRUE].value[5] = <<"E", "sharp">>
    /\ degrees.value[6] = 5

C3_SharpCorrections ==
    /\ (Returned(notes[TRUE]) /\ UseSharps(Offset, TonicNo) = "sharps") =>
          LET n_sharps == IF Tonic = "B" /\ TonicNo = 0 THEN 12 ELSE TonicNo
          IN  /\ Max0(n_sharps - 6 + 1) <= Len(SharpCorrectionList)
              /\ notes[TRUE].value =
                    Substituted(SingleSharpTable, SharpCorrectionList,
                                Max0(n_sharps - 6 + 1))
              /\ (notes[TRUE].value # SingleSharpTable) <=> (n_sharps >= 6)
    /\ (Called(notes[TRUE]) /\ key = ASharpMinKey) =>
          /\ Returned(notes[TRUE])
          /\ notes[TRUE].value[0] = <<"B", "sharp">>
          /\ notes[TRUE].value[5] = <<"E", "sharp">>

\* G#:maj, eight sharps: three corrections, the third a double sharp
C3_Witness ==
    /\ key = <<"G", "#", ":", "m", "a", "j">>
    /\ Returned(notes[TRUE])
    /\ notes[TRUE].value[7] = <<"F", "dsharp">>
    /\ notes[TRUE].value[2] = <<"D">>

\* C4: for a key spelled with flats, key_to_notes is the single-flat table
\* with exactly the first max(0, n_flats-6+1) entries of the ordered list
\* (11 C-flat, 4 F-flat, 9 B-dflat, 2 E-dflat, 7 A-dflat, 0 D-dflat)
\* substituted and every other entry unchanged, n_flats being
\* (12 - tonic_number) mod 12; Fb:min applies all six, with D-dflat at 0.
C4_FlatCorrections ==
    /\ (Returned(notes[TRUE]) /\ UseSharps(Offset, TonicNo) = "flats") =>
          LET n_flats == (12 - TonicNo) % 12
          IN  /\ Max0(n_flats - 6 + 1) <= Len(FlatCorrectionList)
              /\ notes[TRUE].value =
                    Substituted(SingleFlatTable, FlatCorrectionList,
                                Max0(n_flats - 6 + 1))
    /\ (Called(notes[TRUE]) /\ key = FFlatMinKey) =>
          /\ Returned(notes[TRUE])
          /\ notes[TRUE].value =
                Substituted(SingleFlatTable, FlatCorrectionList, 6)
          /\ notes[TRUE].value[0] = <<"D", "dflat">>

\* Gb:maj, six flats: the first correction alone
C4_Witness ==
    /\ key = <<"G", "b", ":", "m", "a", "j">>
    /\ Returned(notes[TRUE])
    /\ notes[TRUE].value[11] = <<"C", "flat">>
    /\ notes[TRUE].value[4] = <<"E">>

\* C5: B#:maj is treated as a key of 12 sharps: all seven sharp corrections
\* are applied, so its table differs from that of C:maj; and the 12-sharp
\* case fires for no other key (tonic B, sharp, major is the only one).
C5_BSharpMajor ==
    Returned(notes[TRUE]) =>
        /\ (Tonic = "B" /\ Offset = 1 /\ IsMajor) =>
              /\ notes[TRUE].value =
                    Substituted(SingleSharpTable, SharpCorrectionList, 7)
              /\ notes[TRUE].value # key_to_notes(CMajKey, TRUE).value
              /\ TonicNo = TonicNumber("C", 0, TRUE)
        /\ ~(Tonic = "B" /\ Offset = 1 /\ IsMajor) =>
              /\ ~(TonicNo = 0 /\ Tonic = "B")
              /\ notes[TRUE].value #
                    Substituted(SingleSharpTable, SharpCorrectionList, 7)

C5_Witness ==
    /\ key = BSharpMajKey
    /\ Returned(notes[TRUE])
    /\ notes[TRUE].value[11] = <<"A", "dsharp">>

\* C6: when the tonic carries an accidental, that accidental type is used for
\* all notes: a flat-tonic key has no sharp or double sharp in any entry, a
\* sharp-tonic key no flat or double flat, whatever tonic_number is (in the
\* Unicode table and in the ASCII one).
C6_TonicAccidentalRespected ==
    \A u \in BOOLEAN :
        Returned(notes[u]) =>
            \A k \in 0..11 : \A i \in 1..Len(notes[u].value[k]) :
                /\ Offset < 0 => notes[u].value[k][i] \notin {"sharp", "dsharp", "#"}
                /\ Offset > 0 => notes[u].value[k][i] \notin {"flat", "dflat", "b"}

\* C#:maj: tonic_number 7, which without the accidental would mean flats
C6_Witness ==
    /\ key = <<"C", "#", ":", "m", "a", "j">>
    /\ TonicNo > 6
    /\ Returned(notes[TRUE]) /\ Returned(notes[FALSE])
    /\ notes[TRUE].value[1] = <<"C", "sharp">>
    /\ notes[FALSE].value[1] = <<"C", "#">>

AsciiGlyph(g) ==
    CASE g = "sharp" -> <<"#">> [] g = "dsharp" -> <<"#", "#">>
      [] g = "flat" -> <<"b">> [] g = "dflat" -> <<"b", "b">>

\* a name is a letter, or a letter and one accidental glyph
AsciiName(name) ==
    IF Len(name) = 1 THEN name ELSE <<name[1]>> \o AsciiGlyph(name[2])

\* C7: key_to_notes(key, unicode=False) equals key_to_notes(key, unicode=True)
\* with every glyph replaced (sharp by #, double sharp by ##, flat by b,
\* double flat by bb), entry by entry in the same order, and holds no Unicode
\* accidental glyph.
C7_AsciiTranslation ==
    /\ (Returned(notes[TRUE]) /\ Called(notes[FALSE])) => Returned(notes[FALSE])
    /\ (Returned(notes[FALSE]) /\ Called(notes[TRUE])) => Returned(notes[TRUE])
    /\ Returned(notes[FALSE]) =>
          /\ DOMAIN notes[FALSE].value = 0..11
          /\ \A k \in 0..11 : \A i \in 1..Len(notes[FALSE].value[k]) :
                notes[FALSE].value[k][i] \notin {"sharp", "dsharp", "flat", "dflat"}
    /\ (Returned(notes[TRUE]) /\ Returned(notes[FALSE])) =>
          \A k \in 0..11 :
              /\ Len(notes[TRUE].value[k]) \in {1, 2}
              /\ notes[FALSE].value[k] = AsciiName(notes[TRUE].value[k])

\* E#:maj: single sharps and double sharps in one table
C7_Witness ==
    /\ key = <<"E", "#", ":", "m", "a", "j">>
    /\ Returned(notes[TRUE]) /\ Returned(notes[FALSE])
    /\ notes[TRUE].value[7] = <<"F", "dsharp">>
    /\ notes[FALSE].value[7] = <<"F", "#", "#">>
    /\ notes[FALSE].value[10] = <<"A", "#">>

\* the strings of the key grammar: a tonic letter, at most one accidental,
\* ':', 'maj' or 'min', an optional trailing 'or' (the tonic in either case)
GrammarKeys ==
    {<<t>> \o a \o <<":">> \o m \o o :
        t \in UpperLetters \cup LowerLetters,
        a \in {<<>>} \cup {<<c>> : c \in AccidentalClass},
        m \in ScaleWords,
        o \in {<<>>, <<"o", "r">>}}

\* C8: key_to_notes and key_to_degrees raise ParameterError, and return no
\* table, for every key string that does not match the grammar (tonic letter,
\* at most one accidental, ':', 'maj' or 'min', optional trailing 'or').
C8_MalformedKeyRaises ==
    key \notin GrammarKeys =>
        /\ \A u \in BOOLEAN : Called(notes[u]) => notes[u].exc = "ParameterError"
        /\ Called(degrees) => degrees.exc = "ParameterError"

\* C9: the tonic must be upper case: key_to_notes and key_to_degrees raise
\* ParameterError for a key whose tonic letter is lower case, such as c:maj.
C9_LowerCaseTonicRaises ==
    (Len(key) >= 1 /\ key[1] \in LowerLetters) =>
        /\ \A u \in BOOLEAN : Called(notes[u]) => notes[u].exc = "ParameterError"
        /\ Called(degrees) => degrees.exc = "ParameterError"

\* C10: key_to_degrees returns seven pairwise distinct values in 0..11, the
\* first the tonic pitch class (pitch_offset(tonic) + accidental) mod 12, the
\* i-th (tonic pitch class + pattern[i]) mod 12, the pattern being
\* 0,2,4,5,7,9,11 for major and 0,2,3,5,7,8,10 for minor; C:maj gives
\* 0,2,4,5,7,9,11 and A:min gives 9,11,0,2,4,5,7.
C10_Degrees ==
    /\ Returned(degrees) =>
          LET pc      == (pitch_map(Tonic) + Offset) % 12
              pattern == IF IsMajor THEN <<0, 2, 4, 5, 7, 9, 11>>
                         ELSE <<0, 2, 3, 5, 7, 8, 10>>
          IN  /\ DOMAIN degrees.value = 0..6
              /\ \A i \in 0..6 : degrees.value[i] \in 0..11
              /\ \A i, j \in 0..6 : i # j => degrees.value[i] # degrees.value[j]
              /\ degrees.value[0] = pc
              /\ \A i \in 0..6 : degrees.value[i] = (pc + pattern[i + 1]) % 12
    /\ (Called(degrees) /\ key = CMajKey) =>
          degrees = Return(FromList(<<0, 2, 4, 5, 7, 9, 11>>))
    /\ (Called(degrees) /\ key = AMinKey) =>
          degrees = Return(FromList(<<9, 11, 0, 2, 4, 5, 7>>))

\* Cb:min: a negative sum before the reduction mod 12, and a wrap past 11
C10_Witness ==
    /\ key = <<"C", "b", ":", "m", "i", "n">>
    /\ Returned(degrees)
    /\ degrees.value[0] = 11
    /\ degrees.value[6] = 9

----------------------------------------------------------------------------
(* What the properties of note_to_midi and midi_to_note speak of *)

\* the groups of the note string in hand (meaningful for a string argument)
NoteParse == NoteMatch(note.val)

PitchOffset(l) ==
    CASE l \in {"C", "c"} -> 0 [] l \in {"D", "d"} -> 2 [] l \in {"E", "e"} -> 4
      [] l \in {"F", "f"} -> 5 [] l \in {"G", "g"} -> 7 [] l \in {"A", "a"} -> 9
      [] l \in {"B", "b"} -> 11

AccidentalOffset(c) ==
    CASE c \in {"#", "sharp"} -> 1 [] c = "dsharp" -> 2
      [] c \in {"b", "!", "flat"} -> -1 [] c = "dflat" -> -2
      [] c = "natural" -> 0

RECURSIVE SumOffsets(_)
SumOffsets(a) ==
    IF a = <<>> THEN 0 ELSE AccidentalOffset(a[1]) + SumOffsets(Tail(a))

\* 12*(octave+1) + pitch_offset(letter) + the accidental offsets + cents/100,
\* in hundredths; an octave or cents that is missing counts as 0.  The
\* optional groups are read from the left: a signed integer that follows the
\* accidentals is the octave.
ExpectedMidi ==
    LET oct == IF NoteParse.octave = <<>> THEN 0 ELSE int(NoteParse.octave)
        cts == IF NoteParse.cents = <<>> THEN 0 ELSE int(NoteParse.cents)
    IN  1200 * (oct + 1) + 100 * PitchOffset(NoteParse.note)
            + 100 * SumOffsets(NoteParse.accidental) + cts

\* the note strings of the arguments that match the note grammar: a letter
\* A-G in either case, accidentals, an optional octave, optional cents
GrammarNotes ==
    {<<l>> \o a \o o \o c :
        l \in UpperLetters \cup LowerLetters,
        a \in NoteAccidentalParts,
        o \in OctaveParts,
        c \in {x \in CentsParts : Len(x) # 1}}

\* v is the name followed by an octave label
NameThenOctave(v, name) ==
    /\ Len(v) > Len(name)
    /\ SubSeq(v, 1, Len(name)) = name
    /\ \A i \in (Len(name) + 1)..Len(v) : v[i] \in Digits \cup Signs

----------------------------------------------------------------------------
C12_MalformedNoteRaises ==
    /\ (note.kind = "str" /\ Called(n2m) /\ note.val \notin GrammarNotes) =>
          n2m.exc = "ParameterError"
    /\ (note.kind = "list" /\ Called(n2m)
            /\ \E i \in 1..Len(note.val) : note.val[i] \notin GrammarNotes) =>
          n2m.exc = "ParameterError"

C14_CentsNeedOctave ==
    (Called(m2n) /\ opts.cents /\ ~opts.octave) =>
        /\ m2n.exc = "ParameterError"
        /\ m2n.value = <<>>

C14_Witness ==
    /\ midi.kind = "list"
    /\ midi.val = <<6000, -200>>
    /\ opts.cents /\ ~opts.octave
    /\ opts.key = DefaultKey
    /\ m2n.exc = "ParameterError"

\* the decimal spelling of an integer
Spelled(n) == IF n < 0 THEN <<"-">> \o Decimal(-n) ELSE Decimal(n)

\* C15: for every MIDI number, negative ones included, the octave label that
\* midi_to_note appends is floor(round(midi)/12) - 1 and the name is the table
\* entry at round(midi) mod 12; midi_to_note(0) is C-1, midi_to_note(-2) is
\* A-sharp -2.
C15_OctaveLabel ==
    /\ (midi.kind = "scalar" /\ opts.octave /\ ~opts.cents /\ Returned(m2n)) =>
          LET r == RoundHalfEven(midi.val)
          IN  m2n.value = key_to_notes(opts.key, opts.unicode).value[r % 12]
                              \o Spelled((r \div 12) - 1)
    /\ (midi.kind = "scalar" /\ opts = DefaultOpts /\ Called(m2n)) =>
          /\ midi.val = 0 => m2n.value = <<"C", "-", "1">>
          /\ midi.val = -200 => m2n.value = <<"A", "sharp", "-", "2">>

\* C16: with cents=True, midi_to_note appends the deviation of midi from its
\* rounded value, in cents, as a sign followed by two digits, for every
\* deviation from -50 to +50, those of fewer than 10 cents and 0 included.
C16_SignedTwoDigitCents ==
    (midi.kind = "scalar" /\ opts.octave /\ opts.cents /\ Returned(m2n)) =>
        LET dev == midi.val - 100 * RoundHalfEven(midi.val)
            v   == m2n.value
        IN  /\ dev \in -50..50
            /\ Len(v) >= 5
            /\ SubSeq(v, Len(v) - 2, Len(v)) =
                  <<IF dev < 0 THEN "-" ELSE "+",
                    DigitChar(Abs(dev) \div 10), DigitChar(Abs(dev) % 10)>>
            /\ v[Len(v) - 3] \in Digits

\* C17: for every valid note string n, midi_to_note(note_to_midi(n)) under the
\* default key C:maj spells the pitch class of n: its name is the C:maj table
\* entry at index note_to_midi(n) mod 12, which for a note without cents is
\* (pitch_offset(letter) + the accidental offsets) mod 12.
C17_RoundTripPitchClass ==
    (note.kind = "str" /\ round_midi /\ Returned(n2m) /\ Called(m2n)) =>
        /\ Returned(m2n)
        /\ NameThenOctave(m2n.value, SingleSharpTable[(n2m.value \div 100) % 12])
        /\ NoteParse.cents = <<>> =>
              NameThenOctave(m2n.value,
                  SingleSharpTable[(PitchOffset(NoteParse.note)
                                    + SumOffsets(NoteParse.accidental)) % 12])

\* Ab-3 is MIDI -16, pitch class 8, which C:maj spells G-sharp
C17_Witness ==
    /\ note.kind = "str"
    /\ note.val = <<"A", "b", "-", "3">>
    /\ round_midi
    /\ Returned(n2m) /\ n2m.value = -1600
    /\ Returned(m2n)
    /\ SubSeq(m2n.value, 1, 2) = <<"G", "sharp">>

----------------------------------------------------------------------------
(* The conversions *)

\* floor(n_fft / 2), 0 when n_fft is absent
HalfWindow ==
    IF conv.n_fft.given
    THEN CHOOSE q \in 0..conv.n_fft.val :
             2 * q <= conv.n_fft.val /\ conv.n_fft.val < 2 * q + 2
    ELSE 0

\* q = floor(a / b), for b > 0
IsFloorOf(q, a, b) == q * b <= a /\ a < (q + 1) * b

\* C18: for all integers f >= 0 and h > 0,
\* samples_to_frames(frames_to_samples(f, h), h) = f when no n_fft is given.
C18_FrameRoundTrip ==
    (Returned(out["samples_to_frames_of_samples"]) /\ conv.x >= 0
            /\ ~conv.n_fft.given) =>
        out["samples_to_frames_of_samples"].value = conv.x

C18_Witness ==
    /\ conv.x = 5 /\ conv.hop_length = 3 /\ ~conv.n_fft.given
    /\ Returned(out["frames_to_samples"])
    /\ out["frames_to_samples"].value = 15
    /\ Returned(out["samples_to_frames_of_samples"])
    /\ out["samples_to_frames_of_samples"].value = 5

\* C19: samples_to_frames(s, h, n_fft) = floor((s - offset) / h) with offset
\* floor(n_fft/2), 0 when n_fft is absent; when s < offset the result is a
\* negative frame index and no error is raised.
C19_SamplesToFrames ==
    Called(out["samples_to_frames"]) =>
        /\ Returned(out["samples_to_frames"])
        /\ IsFloorOf(out["samples_to_frames"].value, conv.x - HalfWindow,
                     conv.hop_length)
        /\ conv.x < HalfWindow => out["samples_to_frames"].value < 0

\* sample 0 with n_fft = 3 and hop 2: floor(-1/2) = -1
C19_Witness ==
    /\ conv.x = 0 /\ conv.hop_length = 2 /\ conv.n_fft = Some(3)
    /\ Returned(out["samples_to_frames"])
    /\ out["samples_to_frames"].value = -1

\* C20: with no n_fft, time_to_frames(t, sr, hop_length) is
\* floor(t * sr / hop_length) for every time t, negative times included
\* (t is conv.x / TicksPerSecond seconds).
C20_TimeToFrames ==
    (Returned(out["time_to_frames"]) /\ ~conv.n_fft.given) =>
        IsFloorOf(out["time_to_frames"].value, conv.x * conv.sr,
                  TicksPerSecond * conv.hop_length)

----------------------------------------------------------------------------
(* fft_frequencies and the weightings *)

\* C21: for every sr > 0 and integer n_fft > 0, fft_frequencies(sr, n_fft)
\* has 1 + n_fft//2 entries and entry k equals k*sr/n_fft, for odd n_fft as
\* well as even.
C21_FftFrequencies ==
    Called(fout["fft_frequencies"]) =>
        /\ Returned(fout["fft_frequencies"])
        /\ DOMAIN fout["fft_frequencies"].value = 0..(farg.n_fft \div 2)
        /\ \A k \in DOMAIN fout["fft_frequencies"].value :
              fout["fft_frequencies"].value[k].num * farg.n_fft
                  = k * farg.sr * fout["fft_frequencies"].value[k].den

\* the curve a kind stands for, "none" for a kind outside the table
CurveOfKind(k) ==
    IF ~k.isstr THEN "Z"
    ELSE IF k.val \in {<<"a">>, <<"A">>} THEN "A"
    ELSE IF k.val \in {<<"b">>, <<"B">>} THEN "B"
    ELSE IF k.val \in {<<"c">>, <<"C">>} THEN "C"
    ELSE IF k.val \in {<<"d">>, <<"D">>} THEN "D"
    ELSE IF k.val \in {<<"z">>, <<"Z">>} THEN "Z"
    ELSE "none"

\* what the named curve returns (or raises) on its own
CurveResult(curve, frequencies) ==
    IF curve = "Z" THEN Z_weighting(frequencies)
    ELSE CurveWeighting(curve, frequencies)

\* C22: frequency_weighting dispatches on kind case-insensitively: a/A, b/B,
\* c/C, d/D, z/Z and None select A_, B_, C_, D_, Z_ and Z_weighting, and every
\* other kind (an unknown letter, a multi-character string) fails with a
\* lookup error and returns no weights.
C22_KindDispatch ==
    Called(fout["frequency_weighting"]) =>
        IF CurveOfKind(farg.kind) = "none"
        THEN /\ fout["frequency_weighting"].exc = "KeyError"
             /\ fout["frequency_weighting"].value = <<>>
        ELSE /\ fout["frequency_weighting"].exc
                    = CurveResult(CurveOfKind(farg.kind), farg.frequencies).exc
             /\ Returned(fout["frequency_weighting"]) =>
                    fout["frequency_weighting"].value
                        = CurveResult(CurveOfKind(farg.kind), farg.frequencies).value

\* kind 'b' on the array [0, 440] gives the two B weights
C22_Witness ==
    /\ farg.kind = KStr(<<"b">>)
    /\ farg.frequencies = Array(<<0, 440>>)
    /\ Returned(fout["frequency_weighting"])
    /\ fout["frequency_weighting"].value
           = Array(<<Weight("B", 0), Weight("B", 440)>>)

\* zeros of the shape of the frequencies
ZerosLike(frequencies) ==
    IF frequencies.kind = "scalar" THEN Scalar(ZeroWeight)
    ELSE Array([i \in 1..Len(frequencies.val) |-> ZeroWeight])

SameShape(w, frequencies) ==
    /\ w.kind = frequencies.kind
    /\ w.kind = "array" => Len(w.val) = Len(frequencies.val)

\* C23: Z_weighting is identically zero and accepts the inputs the other
\* curves accept: for a scalar frequency as for an array, Z_weighting,
\* frequency_weighting with kind 'Z' or None, and multi_frequency_weighting
\* with its default kinds 'ZAC' return weights of the input's shape (one row
\* per kind, in the order of kinds) and raise nothing.
C23_ZWeighting ==
    /\ Called(fout["Z_weighting"]) =>
          /\ Returned(fout["Z_weighting"])
          /\ fout["Z_weighting"].value = ZerosLike(farg.frequencies)
    /\ (Called(fout["frequency_weighting"])
            /\ (farg.kind = KNone \/ farg.kind = KStr(<<"Z">>))) =>
          /\ Returned(fout["frequency_weighting"])
          /\ fout["frequency_weighting"].value = ZerosLike(farg.frequencies)
    /\ (Called(fout["multi_frequency_weighting"]) /\ farg.kinds = DefaultKinds) =>
          /\ Returned(fout["multi_frequency_weighting"])
          /\ Len(fout["multi_frequency_weighting"].value.val) = 3
          /\ fout["multi_frequency_weighting"].value.val[1]
                 = ZerosLike(farg.frequencies)
          /\ \A i \in 2..3 :
                 SameShape(fout["multi_frequency_weighting"].value.val[i],
                           farg.frequencies)

----------------------------------------------------------------------------
(* key_to_notes, note_to_midi and midi_to_note together *)

\* the number of sharps, or of flats, of the key in hand
SharpCount == IF TonicNo = 0 /\ Tonic = "B" THEN 12 ELSE TonicNo

FlatCount == (12 - TonicNo) % 12

\* C24: key_to_notes is total on grammatical keys: for every string matching
\* the key grammar it returns a 12-entry table and raises nothing; no key
\* without an accidental has tonic_number 6, and the number of corrections
\* applied never exceeds the length of the correction list (at most 7 sharp,
\* at most 6 flat).
C24_TotalOnGrammaticalKeys ==
    key \in GrammarKeys =>
        /\ \A u \in BOOLEAN :
              Called(notes[u]) =>
                  (Returned(notes[u]) /\ DOMAIN notes[u].value = 0..11)
        /\ Offset = 0 => TonicNo # 6
        /\ Offset > 0 => Max0(SharpCount - 5) <= 7
        /\ Offset < 0 => Max0(FlatCount - 5) <= 6
        /\ Offset = 0 => (Max0(SharpCount - 5) = 0 \/ Max0(FlatCount - 5) = 0)

\* Fb:min has eleven flats: all six flat corrections are applied
C24_Witness ==
    /\ key = FFlatMinKey
    /\ \A u \in BOOLEAN : Returned(notes[u])
    /\ FlatCount = 11
    /\ notes[TRUE].value[0] = <<"D", "dflat">>
    /\ notes[FALSE].value[0] = <<"D", "b", "b">>

\* C25: for every valid key, both values of the unicode flag and every
\* semitone k in 0..11, the name key_to_notes(key, unicode)[k] parses back to
\* pitch class k: note_to_midi of it is k modulo 12, the corrected spellings
\* (B-sharp, E-sharp, C-flat, F-flat, the double sharps and double flats, and
\* their ASCII forms ## and bb) included.
C25_TableNamesParseBack ==
    (note.kind = "str" /\ Called(n2m)) =>
        /\ Returned(n2m)
        /\ \A u \in BOOLEAN, k \in 0..11 :
              (Returned(notes[u]) /\ notes[u].value[k] = note.val) =>
                  n2m.value % 1200 = 100 * k

\* semitone 11 of B#:maj in ASCII is A##, which note_to_midi reads as 23
C25_Witness ==
    /\ key = BSharpMajKey
    /\ Returned(notes[FALSE])
    /\ notes[FALSE].value[11] = <<"A", "#", "#">>
    /\ note = [kind |-> "str", val |-> <<"A", "#", "#">>]
    /\ Returned(n2m)
    /\ n2m.value = 2300

\* C26: for every integer MIDI number m >= 0 and every valid key,
\* note_to_midi(midi_to_note(m, key=key)) = m: the octave label written by
\* midi_to_note is the one note_to_midi needs to recover m, also when the key
\* spells the semitone across an octave boundary (B-sharp or A-double-sharp
\* for semitones 0 and 11 in sharp keys, C-flat or D-double-flat in flat keys).
C26_MidiRoundTrip ==
    (midi.kind = "scalar" /\ midi.val >= 0 /\ midi.val % 100 = 0
            /\ opts.octave /\ ~opts.cents /\ opts.unicode
            /\ Returned(m2n) /\ Called(n2m)) =>
        /\ Returned(n2m)
        /\ n2m.value = midi.val

----------------------------------------------------------------------------
\* C27: for every integer sample index s (negative included), hop_length
\* h > 0 and optional n_fft used on both sides,
\* frames_to_samples(samples_to_frames(s, h, n_fft), h, n_fft) is the first
\* sample of the frame containing s: it is <= s and > s - h; and
\* samples_to_frames(frames_to_samples(f, h, n_fft), h, n_fft) = f for every
\* integer f, negative included, also when n_fft is given.
C27_RoundTripsWithWindow ==
    /\ Called(out["frames_to_samples_of_frames"]) =>
          /\ Returned(out["frames_to_samples_of_frames"])
          /\ out["frames_to_samples_of_frames"].value <= conv.x
          /\ out["frames_to_samples_of_frames"].value > conv.x - conv.hop_length
          /\ (out["frames_to_samples_of_frames"].value - HalfWindow)
                 % conv.hop_length = 0
    /\ Called(out["samples_to_frames_of_samples"]) =>
          /\ Returned(out["samples_to_frames_of_samples"])
          /\ out["samples_to_frames_of_samples"].value = conv.x

\* sample -5 with hop 3 and n_fft = 4 lies in frame -3, which starts at -7
C27_Witness ==
    /\ conv.x = -5 /\ conv.hop_length = 3 /\ conv.n_fft = Some(4)
    /\ Returned(out["samples_to_frames"])
    /\ out["samples_to_frames"].value = -3
    /\ Returned(out["frames_to_samples_of_frames"])
    /\ out["frames_to_samples_of_frames"].value = -7
    /\ Returned(out["samples_to_frames_of_samples"])
    /\ out["samples_to_frames_of_samples"].value = -5

----------------------------------------------------------------------------
\* the value is exactly halfway between two integers
IsHalfway(h) == h % 100 = 50

====
